---- MODULE Spec2Model ----
(***************************************************************************)
(* Keyword search over pattern reference files (t0dorakis/murmur):         *)
(*   md  variant: src/.agents/skills/effect-ts-patterns/scripts/           *)
(*                search_patterns.py  (plain markdown, search_references)  *)
(*   mdx variant: src/skills/effect-ts-patterns/scripts/                   *)
(*                search_patterns.py  (front matter, search_patterns)      *)
(*                                                                         *)
(* Text is a sequence of one-character strings.  Scores are kept in        *)
(* half-points (the source's 0.5 is 1 here, 10.0 is 20), so that every     *)
(* weight of both scorers is an exact integer.                             *)
(***************************************************************************)
EXTENDS Integers, Sequences, FiniteSets, TLC

VARIABLES
    variant,          \* "md" | "mdx" | "none": which script runs
    query,            \* args.query
    top_n,            \* args.top
    dir_exists,       \* references_dir.exists() / PATTERNS_DIR.exists()
    files,            \* what glob()/rglob() yields, in discovery order
    pos,              \* number of files the for-loop has consumed
    results,          \* the accumulating result list
    files_processed,  \* md variant counter
    files_skipped,    \* md variant counter
    read_attempts,    \* number of read_text() calls made so far
    pc,               \* position of the run
    error,            \* exception that ended the run, or "none"
    exit_code,        \* process exit status, -1 while running
    returned,         \* the list the search function returned
    fn,               \* pure-function specifications: the function applied
    args,             \* its arguments
    ret,              \* its return value
    prev              \* the return value before the last edit of the body

searchVars == <<variant, query, top_n, dir_exists, files, pos, results,
                files_processed, files_skipped, read_attempts, pc, error,
                exit_code, returned>>
pureVars == <<fn, args, ret, prev>>
vars == <<variant, query, top_n, dir_exists, files, pos, results,
          files_processed, files_skipped, read_attempts, pc, error,
          exit_code, returned, fn, args, ret, prev>>

----------------------------------------------------------------------------
(* Text primitives of Python's str, as the scripts use them.               *)

NL == "\n"
SP == " "

Min(a, b) == IF a < b THEN a ELSE b
Max(a, b) == IF a > b THEN a ELSE b

\* str.lower() on the characters of the model's alphabet
LowerChar(c) ==
    CASE c = "A" -> "a"
      [] c = "B" -> "b"
      [] c = "C" -> "c"
      [] OTHER -> c

Lower(s) == [i \in 1..Len(s) |-> LowerChar(s[i])]

\* s[a:b] for 0 <= a, 0 <= b (Python clamps both ends to len(s))
Slice(s, a, b) == SubSeq(s, Min(a, Len(s)) + 1, Min(b, Len(s)))

\* s[a:]
SliceFrom(s, a) == SubSeq(s, Min(a, Len(s)) + 1, Len(s))

\* sub in s
Contains(sub, s) ==
    \E i \in 0..(Len(s) - Len(sub)) : SubSeq(s, i + 1, i + Len(sub)) = sub

\* s.startswith(p)
StartsWith(s, p) == Len(s) >= Len(p) /\ SubSeq(s, 1, Len(p)) = p

\* s.find(sub): the lowest index of an occurrence, -1 when there is none
Find(s, sub) ==
    IF Contains(sub, s)
    THEN CHOOSE i \in 0..(Len(s) - Len(sub)) :
            /\ SubSeq(s, i + 1, i + Len(sub)) = sub
            /\ \A j \in 0..(i - 1) : SubSeq(s, j + 1, j + Len(sub)) # sub
    ELSE -1

\* s.count(sub): non-overlapping occurrences, scanning left to right
RECURSIVE CountFrom(_, _, _)
CountFrom(s, sub, i) ==
    IF i + Len(sub) > Len(s) THEN 0
    ELSE IF SubSeq(s, i + 1, i + Len(sub)) = sub
         THEN 1 + CountFrom(s, sub, i + Len(sub))
         ELSE CountFrom(s, sub, i + 1)

Count(s, sub) == IF sub = <<>> THEN Len(s) + 1 ELSE CountFrom(s, sub, 0)

IsSpace(c) == c = SP \/ c = NL

\* s.split(): split on runs of whitespace, no empty pieces
RECURSIVE SplitWs(_, _, _)
SplitWs(s, i, cur) ==
    IF i > Len(s) THEN (IF cur = <<>> THEN <<>> ELSE <<cur>>)
    ELSE IF IsSpace(s[i])
         THEN (IF cur = <<>> THEN <<>> ELSE <<cur>>) \o SplitWs(s, i + 1, <<>>)
         ELSE SplitWs(s, i + 1, Append(cur, s[i]))

Split(s) == SplitWs(s, 1, <<>>)

\* s.split("\n"): always at least one piece
RECURSIVE SplitNl(_, _, _)
SplitNl(s, i, cur) ==
    IF i > Len(s) THEN <<cur>>
    ELSE IF s[i] = NL
         THEN <<cur>> \o SplitNl(s, i + 1, <<>>)
         ELSE SplitNl(s, i + 1, Append(cur, s[i]))

SplitLines(s) == SplitNl(s, 1, <<>>)

\* "\n".join(lines)
RECURSIVE JoinLines(_)
JoinLines(lines) ==
    IF lines = <<>> THEN <<>>
    ELSE IF Len(lines) = 1 THEN lines[1]
    ELSE lines[1] \o <<NL>> \o JoinLines(Tail(lines))

\* number of query terms (repeats counted) that occur in a field
NumContaining(query_terms, field) ==
    Cardinality({i \in DOMAIN query_terms : Contains(query_terms[i], field)})

----------------------------------------------------------------------------
(* md variant: calculate_score(query, content, filename), in half-points.  *)

MD_FILENAME_PHRASE == 20
MD_FILENAME_TERM == 8
MD_CONTENT_PHRASE == 16
MD_OCCURRENCE_CAP == 10
MD_OCCURRENCE == 1
MD_HEADER_PHRASE == 10
MD_HEADER_TERM == 4

HEADER_MARK == <<"#", "#">>

\* the per-term count without its cap
OccurrenceScore_Uncapped(content_lower, term) ==
    Count(content_lower, term) * MD_OCCURRENCE

\* min(content_lower.count(term), 10) * 0.5
OccurrenceScore(content_lower, term) ==
    Min(Count(content_lower, term), MD_OCCURRENCE_CAP) * MD_OCCURRENCE

RECURSIVE SumOccurrences(_, _)
SumOccurrences(query_terms, content_lower) ==
    IF query_terms = <<>> THEN 0
    ELSE OccurrenceScore(content_lower, Head(query_terms))
         + SumOccurrences(Tail(query_terms), content_lower)

HeaderLineScore(query_lower, query_terms, line) ==
    IF StartsWith(line, HEADER_MARK)
    THEN LET header_lower == Lower(line)
         IN  IF Contains(query_lower, header_lower)
             THEN MD_HEADER_PHRASE
             ELSE MD_HEADER_TERM
                    * NumContaining(query_terms, header_lower)
    ELSE 0

RECURSIVE SumHeaders(_, _, _)
SumHeaders(query_lower, query_terms, lines) ==
    IF lines = <<>> THEN 0
    ELSE HeaderLineScore(query_lower, query_terms, Head(lines))
         + SumHeaders(query_lower, query_terms, Tail(lines))

calculate_score_md(q, content, filename) ==
    LET query_lower == Lower(q)
        query_terms == Split(query_lower)
        content_lower == Lower(content)
        filename_lower == Lower(filename)
        by_filename ==
            IF Contains(query_lower, filename_lower)
            THEN MD_FILENAME_PHRASE
            ELSE MD_FILENAME_TERM
                   * NumContaining(query_terms, filename_lower)
        by_phrase ==
            IF Contains(query_lower, content_lower) THEN MD_CONTENT_PHRASE ELSE 0
    IN  by_filename
        + by_phrase
        + SumOccurrences(query_terms, content_lower)
        + SumHeaders(query_lower, query_terms, SplitLines(content))

----------------------------------------------------------------------------
(* mdx variant: parse_frontmatter(content).                                *)
(* A parsed value is [t |-> "str", v |-> text], [t |-> "list", v |-> a     *)
(* sequence of texts] or [t |-> "none"]; a mapping is a function from key  *)
(* texts to values, and {} is the function with the empty domain.          *)

DASHES == <<"-", "-", "-">>
CLOSING == <<NL, "-", "-", "-", NL>>

EmptyDict == [t |-> "dict", items |-> <<>>]

StrVal(s) == [t |-> "str", v |-> s]
ListVal(l) == [t |-> "list", v |-> l]
NoneVal == [t |-> "none"]

\* s.strip() for spaces
RECURSIVE LStrip(_)
LStrip(s) == IF s # <<>> /\ Head(s) = SP THEN LStrip(Tail(s)) ELSE s

RECURSIVE RStrip(_)
RStrip(s) ==
    IF s # <<>> /\ s[Len(s)] = SP THEN RStrip(SubSeq(s, 1, Len(s) - 1)) ELSE s

Strip(s) == LStrip(RStrip(s))

RECURSIVE SplitComma(_, _, _)
SplitComma(s, i, cur) ==
    IF i > Len(s) THEN <<Strip(cur)>>
    ELSE IF s[i] = ","
         THEN <<Strip(cur)>> \o SplitComma(s, i + 1, <<>>)
         ELSE SplitComma(s, i + 1, Append(cur, s[i]))

COLON_SP == <<":", SP>>

\* One line of the subset of YAML that pattern files use:
\*   blank or '---' | key: scalar | key: [a, b] | key: | - item | plain | malformed
YamlLine(line) ==
    LET l == RStrip(line)
        k == Find(l, COLON_SP)
    IN  IF l = <<>> \/ l = DASHES THEN [kind |-> "blank"]
        ELSE IF Head(l) = SP \/ Head(l) = "[" \/ Head(l) = ":" THEN [kind |-> "bad"]
        ELSE IF l = <<"-">> \/ StartsWith(l, <<"-", SP>>)
        THEN [kind |-> "seq", text |-> l]
        ELSE IF k >= 1
        THEN LET key == SubSeq(l, 1, k)
                 rest == LStrip(SubSeq(l, k + 3, Len(l)))
             IN  IF Contains(COLON_SP, rest) \/ rest[Len(rest)] = ":"
                 THEN [kind |-> "bad"]
                 ELSE IF Head(rest) = "["
                 THEN IF rest[Len(rest)] = "]" /\ Count(rest, <<"[">>) = 1
                         /\ Count(rest, <<"]">>) = 1
                      THEN [kind |-> "entry", key |-> key,
                            val |-> IF Strip(SubSeq(rest, 2, Len(rest) - 1)) = <<>>
                                    THEN ListVal(<<>>)
                                    ELSE ListVal(SplitComma(
                                             SubSeq(rest, 2, Len(rest) - 1), 1, <<>>))]
                      ELSE [kind |-> "bad"]
                 ELSE [kind |-> "entry", key |-> key, val |-> StrVal(rest)]
        ELSE IF l[Len(l)] = ":" /\ Len(l) >= 2
        THEN [kind |-> "entry", key |-> SubSeq(l, 1, Len(l) - 1), val |-> NoneVal]
        ELSE [kind |-> "plain", text |-> l]

\* the mapping the entry lines build; a repeated key keeps its last value
RECURSIVE BuildDict(_, _)
BuildDict(parsed, acc) ==
    IF parsed = <<>> THEN acc
    ELSE LET e == Head(parsed)
         IN  IF e.kind = "entry"
             THEN BuildDict(Tail(parsed),
                     [x \in (DOMAIN acc) \cup {e.key} |->
                         IF x = e.key THEN e.val ELSE acc[x]])
             ELSE BuildDict(Tail(parsed), acc)

\* a plain scalar spanning lines folds them with single spaces
RECURSIVE FoldPlain(_)
FoldPlain(parsed) ==
    IF parsed = <<>> THEN <<>>
    ELSE IF Head(parsed).kind = "blank" THEN FoldPlain(Tail(parsed))
    ELSE LET rest == FoldPlain(Tail(parsed))
         IN  IF rest = <<>> THEN Head(parsed).text
             ELSE Head(parsed).text \o <<SP>> \o rest

RECURSIVE SeqItems(_)
SeqItems(parsed) ==
    IF parsed = <<>> THEN <<>>
    ELSE IF Head(parsed).kind = "blank" THEN SeqItems(Tail(parsed))
    ELSE <<Strip(Tail(Head(parsed).text))>> \o SeqItems(Tail(parsed))

\* yaml.safe_load(text): a value, or [t |-> "YAMLError"]
safe_load(text) ==
    LET lines == SplitLines(text)
        parsed == [i \in 1..Len(lines) |-> YamlLine(lines[i])]
        solid == {i \in 1..Len(parsed) : parsed[i].kind # "blank"}
        kinds == {parsed[i].kind : i \in solid}
        first == parsed[CHOOSE i \in solid : \A j \in solid : i <= j].kind
    IN  IF solid = {} THEN NoneVal
        ELSE IF first = "entry" /\ kinds = {"entry"}
        THEN [t |-> "dict", items |-> BuildDict(parsed, <<>>)]
        ELSE IF first = "plain" /\ kinds \subseteq {"plain", "seq"}
        THEN StrVal(FoldPlain(parsed))
        ELSE IF first = "seq" /\ kinds = {"seq"}
        THEN ListVal(SeqItems(parsed))
        ELSE [t |-> "YAMLError"]

\* bool(value)
Truthy(val) ==
    CASE val.t = "none" -> FALSE
      [] val.t = "dict" -> DOMAIN val.items # {}
      [] val.t = "YAMLError" -> FALSE
      [] OTHER -> val.v # <<>>

\* yaml.safe_load(frontmatter_str) or {}, with YAMLError giving {}
LoadOrEmpty(frontmatter_str) ==
    LET loaded == safe_load(frontmatter_str)
    IN  IF loaded.t = "YAMLError" THEN EmptyDict
        ELSE IF Truthy(loaded) THEN loaded
        ELSE EmptyDict

parse_frontmatter(content) ==
    IF ~StartsWith(content, DASHES)
    THEN [frontmatter |-> EmptyDict, body |-> content]
    ELSE LET end_match == Find(SliceFrom(content, 3), CLOSING)
         IN  IF end_match = -1
             THEN [frontmatter |-> EmptyDict, body |-> content]
             ELSE LET frontmatter_end == end_match + 3
                      frontmatter_str == Slice(content, 3, frontmatter_end)
                  IN  [frontmatter |-> LoadOrEmpty(frontmatter_str),
                       body |-> SliceFrom(content, frontmatter_end + 5)]

----------------------------------------------------------------------------
(* mdx variant: calculate_score(query, frontmatter, body), in half-points. *)

MDX_TITLE_PHRASE == 20
MDX_TITLE_TERM == 6
MDX_TAGS_PHRASE == 16
MDX_TAGS_TERM == 4
MDX_SUMMARY_PHRASE == 10
MDX_SUMMARY_TERM == 3
MDX_BODY_PHRASE == 6
MDX_BODY_TERM == 1

TITLE == <<"t", "i", "t", "l", "e">>
TAGS == <<"t", "a", "g", "s">>
SUMMARY == <<"s", "u", "m", "m", "a", "r", "y">>

\* frontmatter.get(key, default)
Get(frontmatter, key, default) ==
    IF key \in DOMAIN frontmatter.items THEN frontmatter.items[key] ELSE default

\* " ".join(str(t) for t in tags): the elements of a list, the characters of a str
RECURSIVE JoinSp(_)
JoinSp(parts) ==
    IF parts = <<>> THEN <<>>
    ELSE IF Len(parts) = 1 THEN parts[1]
    ELSE parts[1] \o <<SP>> \o JoinSp(Tail(parts))

TagsStr(tags) ==
    IF tags.t = "list" THEN Lower(JoinSp(tags.v))
    ELSE Lower(JoinSp([i \in 1..Len(tags.v) |-> <<tags.v[i]>>]))

\* the call raises AttributeError: frontmatter has no .get (safe_load gave a str),
\* or title / summary has no .lower (a list or None)
calculate_score_raises(frontmatter) ==
    \/ frontmatter.t # "dict"
    \/ Get(frontmatter, TITLE, StrVal(<<>>)).t # "str"
    \/ Get(frontmatter, SUMMARY, StrVal(<<>>)).t # "str"

FieldScore(query_lower, query_terms, field, phrase_w, term_w) ==
    IF Contains(query_lower, field)
    THEN phrase_w
    ELSE term_w * NumContaining(query_terms, field)

calculate_score_mdx(q, frontmatter, body) ==
    LET query_lower == Lower(q)
        query_terms == Split(query_lower)
        title == Lower(Get(frontmatter, TITLE, StrVal(<<>>)).v)
        tags == Get(frontmatter, TAGS, ListVal(<<>>))
        summary == Lower(Get(frontmatter, SUMMARY, StrVal(<<>>)).v)
        body_lower == Lower(body)
    IN  FieldScore(query_lower, query_terms, title, MDX_TITLE_PHRASE, MDX_TITLE_TERM)
        + (IF Truthy(tags)
           THEN FieldScore(query_lower, query_terms, TagsStr(tags),
                           MDX_TAGS_PHRASE, MDX_TAGS_TERM)
           ELSE 0)
        + FieldScore(query_lower, query_terms, summary,
                     MDX_SUMMARY_PHRASE, MDX_SUMMARY_TERM)
        + FieldScore(query_lower, query_terms, body_lower,
                     MDX_BODY_PHRASE, MDX_BODY_TERM)

----------------------------------------------------------------------------
(* md variant: extract_relevant_section(content, query, context_lines).    *)

\* index (from 0) of the first line containing needle, -1 when none does
FirstLineWith(lines, needle) ==
    IF \E i \in 1..Len(lines) : Contains(needle, Lower(lines[i]))
    THEN (CHOOSE i \in 1..Len(lines) :
             /\ Contains(needle, Lower(lines[i]))
             /\ \A j \in 1..(i - 1) : ~Contains(needle, Lower(lines[j]))) - 1
    ELSE -1

\* the term loop: the first term, in query order, that some line contains
RECURSIVE FirstTermMatch(_, _)
FirstTermMatch(lines, terms) ==
    IF terms = <<>> THEN -1
    ELSE IF FirstLineWith(lines, Head(terms)) # -1
         THEN FirstLineWith(lines, Head(terms))
         ELSE FirstTermMatch(lines, Tail(terms))

\* the scan done line by line: the first line containing any query term
BestIdx_LineMajor(content, q) ==
    LET query_lower == Lower(q)
        lines == SplitLines(content)
        terms == Split(query_lower)
        hit == {i \in 1..Len(lines) :
                   \E k \in 1..Len(terms) : Contains(terms[k], Lower(lines[i]))}
    IN  IF FirstLineWith(lines, query_lower) # -1
        THEN FirstLineWith(lines, query_lower)
        ELSE IF hit = {} THEN -1
        ELSE (CHOOSE i \in hit : \A j \in hit : i <= j) - 1

BestIdx(content, q) ==
    LET query_lower == Lower(q)
        lines == SplitLines(content)
    IN  IF FirstLineWith(lines, query_lower) # -1
        THEN FirstLineWith(lines, query_lower)
        ELSE FirstTermMatch(lines, Split(query_lower))

extract_relevant_section(content, q, context_lines) ==
    LET lines == SplitLines(content)
        best_idx == BestIdx(content, q)
    IN  IF best_idx = -1 THEN <<>>
        ELSE LET start == Max(0, best_idx - context_lines)
                 end == Min(Len(lines), best_idx + context_lines + 1)
             IN  JoinLines(Slice(lines, start, end))

----------------------------------------------------------------------------
(* The variables a specification does not use stay at these values.        *)

Pending == [status |-> "pending"]
Returned(v) == [status |-> "returned", value |-> v]
Raised(exc) == [status |-> "raised", exc |-> exc]

IdleSearch ==
    /\ variant = "none"
    /\ query = <<>>
    /\ top_n = 0
    /\ dir_exists = FALSE
    /\ files = <<>>
    /\ pos = 0
    /\ results = <<>>
    /\ files_processed = 0
    /\ files_skipped = 0
    /\ read_attempts = 0
    /\ pc = "idle"
    /\ error = "none"
    /\ exit_code = -1
    /\ returned = [status |-> "pending"]

IdlePure ==
    /\ fn = "none"
    /\ args = <<>>
    /\ ret = Pending
    /\ prev = Pending

\* the texts built from at most n lines of a set of lines
RECURSIVE LineSeqs(_, _)
LineSeqs(lineset, n) ==
    IF n = 0 THEN {<<>>}
    ELSE LineSeqs(lineset, n - 1)
         \cup {Append(ls, l) : ls \in LineSeqs(lineset, n - 1), l \in lineset}

----------------------------------------------------------------------------
(* SpecScore: the two scorers applied to drawn arguments, and the body of  *)
(* an md document edited by adding one more occurrence of a matched term.  *)

MaxBodyLines == 2

ScoreQueries ==
    { <<>>, <<SP>>, <<"a">>, <<"A", SP, "b">>, <<"a", SP, "b", SP, "c">> }

ScoreFilenames == { <<"x">>, <<"a", "-", "b">> }

ScoreLines ==
    { <<>>,
      <<"a", SP, "b", SP, "c">>,
      <<"#", "#", SP, "c", SP, "a", SP, "b", SP>>,
      <<"#", "#", SP, "A">>,
      <<"a", "a", "a", "a", "a", "a", "a", "a", "a", "a">> }

ScoreBodies == {JoinLines(ls) : ls \in LineSeqs(ScoreLines, MaxBodyLines) \ {<<>>}}

MdxDocs ==
    { <<>>,
      <<"a", SP, "b">>,
      DASHES \o <<NL>> \o TITLE \o <<":", SP, "a", SP, "b", NL>> \o DASHES
          \o <<NL, "b">>,
      DASHES \o <<NL>> \o TAGS \o <<":", SP, "[", "a", ",", SP, "b", "]", NL>>
          \o SUMMARY \o <<":", SP, "A", NL>> \o DASHES \o <<NL, "c", NL>>,
      DASHES \o <<NL>> \o TAGS \o <<":", SP, "[", "a", NL>> \o DASHES
          \o <<NL, "a", SP, "b">>,
      DASHES \o <<NL>> \o TITLE \o <<":", SP, "a", NL>>,
      DASHES \o <<NL, "a", NL>> \o DASHES \o <<NL, "a">>,
      DASHES \o <<NL>> \o TITLE \o <<":", NL>> \o DASHES \o <<NL, "a">> }

InitScore ==
    /\ IdleSearch
    /\ \/ /\ fn = "calculate_score_md"
          /\ args \in [query : ScoreQueries, content : ScoreBodies,
                       filename : ScoreFilenames, edit : {"none"},
                       term : {<<>>}, before : {<<>>}]
       \/ /\ fn = "calculate_score_mdx"
          /\ \E q \in ScoreQueries, doc \in MdxDocs :
                args = [query |-> q, doc |-> doc,
                        frontmatter |-> parse_frontmatter(doc).frontmatter,
                        body |-> parse_frontmatter(doc).body]
    /\ ret = Pending
    /\ prev = Pending

CallScoreMd ==
    /\ fn = "calculate_score_md"
    /\ ret = Pending
    /\ ret' = Returned(calculate_score_md(args.query, args.content, args.filename))
    /\ UNCHANGED <<fn, args, prev>>
    /\ UNCHANGED searchVars

CallScoreMdx ==
    /\ fn = "calculate_score_mdx"
    /\ ret = Pending
    /\ ret' = IF calculate_score_raises(args.frontmatter)
              THEN Raised("AttributeError")
              ELSE Returned(calculate_score_mdx(args.query, args.frontmatter,
                                                args.body))
    /\ UNCHANGED <<fn, args, prev>>
    /\ UNCHANGED searchVars

\* the query terms that the body already matches
MatchedTerms(q, content) ==
    {t \in {Split(Lower(q))[i] : i \in DOMAIN Split(Lower(q))} :
        Contains(t, Lower(content))}

InsertAt(s, p, t) == SubSeq(s, 1, p) \o t \o SubSeq(s, p + 1, Len(s))

\* one more occurrence of a matched term is written at any place of the body
InsertOccurrence ==
    /\ fn = "calculate_score_md"
    /\ ret.status = "returned"
    /\ args.edit = "none"
    /\ \E t \in MatchedTerms(args.query, args.content), p \in 0..Len(args.content) :
          /\ args' = [args EXCEPT !.content = InsertAt(args.content, p, t),
                                  !.edit = "insert", !.term = t,
                                  !.before = args.content]
          /\ ret' = Returned(calculate_score_md(args.query,
                                 InsertAt(args.content, p, t), args.filename))
    /\ prev' = ret
    /\ UNCHANGED fn
    /\ UNCHANGED searchVars

\* one more occurrence of a matched term is written as a new last line
AppendOccurrenceLine ==
    /\ fn = "calculate_score_md"
    /\ ret.status = "returned"
    /\ args.edit = "none"
    /\ \E t \in MatchedTerms(args.query, args.content) :
          /\ args' = [args EXCEPT !.content = args.content \o <<NL>> \o t,
                                  !.edit = "append_line", !.term = t,
                                  !.before = args.content]
          /\ ret' = Returned(calculate_score_md(args.query,
                                 args.content \o <<NL>> \o t, args.filename))
    /\ prev' = ret
    /\ UNCHANGED fn
    /\ UNCHANGED searchVars

NextScore ==
    \/ CallScoreMd
    \/ CallScoreMdx
    \/ InsertOccurrence
    \/ AppendOccurrenceLine

SpecScore == InitScore /\ [][NextScore]_vars

----------------------------------------------------------------------------
(* SpecSnippet: extract_relevant_section applied to drawn arguments.       *)

MaxSnippetLines == 3
MaxContext == 1

SnippetLines == { <<>>, <<"a">>, <<"B">>, <<"x", SP, "a", SP, "b">>, <<"x">> }

SnippetQueries == { <<>>, <<SP>>, <<"a", SP, "b">>, <<"z", SP, "b", SP, "A">> }

SnippetContents == {JoinLines(ls) : ls \in LineSeqs(SnippetLines, MaxSnippetLines)}

InitSnippet ==
    /\ IdleSearch
    /\ fn = "extract_relevant_section"
    /\ args \in [content : SnippetContents, query : SnippetQueries,
                 context_lines : 0..MaxContext]
    /\ ret = Pending
    /\ prev = Pending

CallExtract ==
    /\ fn = "extract_relevant_section"
    /\ ret = Pending
    /\ ret' = Returned(extract_relevant_section(args.content, args.query,
                                                args.context_lines))
    /\ UNCHANGED <<fn, args, prev>>
    /\ UNCHANGED searchVars

NextSnippet == CallExtract

SpecSnippet == InitSnippet /\ [][NextSnippet]_vars

----------------------------------------------------------------------------
(* SpecFrontmatter: parse_frontmatter applied to documents serialized from *)
(* a metadata text and a body, and to arbitrary texts.                     *)

MaxMetaLines == 2
MaxRawLines == 3

MetaLines ==
    { TITLE \o <<":", SP, "a">>,
      TAGS \o <<":", SP, "[", "a", "]">>,
      TAGS \o <<":", SP, "[", "a">>,
      <<"a">>,
      <<"-", "-">> }

\* a metadata text: whole lines, each ended by a line break
RECURSIVE Terminated(_)
Terminated(ls) ==
    IF ls = <<>> THEN <<>> ELSE Head(ls) \o <<NL>> \o Terminated(Tail(ls))

MetaTexts == {Terminated(ls) : ls \in LineSeqs(MetaLines, MaxMetaLines)}

FmBodies ==
    { <<>>, <<"a">>, <<"a", NL>>, DASHES, DASHES \o <<NL>>,
      <<"a", NL>> \o DASHES \o <<NL, "b">> }

RawLines == { <<>>, DASHES, DASHES \o <<"a">>, <<"a">>, TITLE \o <<":", SP, "a">> }

RawTexts == {JoinLines(ls) : ls \in LineSeqs(RawLines, MaxRawLines)}

Serialize(meta, body) == DASHES \o <<NL>> \o meta \o DASHES \o <<NL>> \o body

InitFrontmatter ==
    /\ IdleSearch
    /\ fn = "parse_frontmatter"
    /\ \/ \E m \in MetaTexts, b \in FmBodies :
             args = [kind |-> "built", content |-> Serialize(m, b),
                     meta |-> m, body |-> b]
       \/ \E t \in RawTexts :
             args = [kind |-> "raw", content |-> t, meta |-> <<>>, body |-> <<>>]
    /\ ret = Pending
    /\ prev = Pending

CallParse ==
    /\ fn = "parse_frontmatter"
    /\ ret = Pending
    /\ ret' = Returned(parse_frontmatter(args.content))
    /\ UNCHANGED <<fn, args, prev>>
    /\ UNCHANGED searchVars

NextFrontmatter == CallParse

SpecFrontmatter == InitFrontmatter /\ [][NextFrontmatter]_vars

----------------------------------------------------------------------------
(* Spec: one run of either script, from main() to the process exit.  Only  *)
(* the result fields the ranking reads are kept (file, score, snippet);    *)
(* the printed listing is not modelled.                                    *)

MaxFiles == 3
MaxTop == 2

SNIPPET_MAX == 300
ELLIPSIS == <<".", ".", ".">>

SearchQueries == { <<>>, <<"a">>, <<"A", SP, "b">> }

MdFileKinds ==
    { [stem |-> <<"a">>, content |-> <<"x">>, read |-> "ok"],
      [stem |-> <<"x">>, content |-> <<"a", SP, "b">>, read |-> "ok"],
      [stem |-> <<"x">>, content |-> <<"x">>, read |-> "ok"],
      [stem |-> <<"a">>, content |-> <<>>, read |-> "OSError"],
      [stem |-> <<"a">>, content |-> <<>>, read |-> "UnicodeDecodeError"] }

MdxFileKinds ==
    { \* well-formed front matter
      [content |-> DASHES \o <<NL>> \o TITLE \o <<":", SP, "a", SP, "b", NL>>
                       \o DASHES \o <<NL, "b">>,
       read |-> "ok"],
      [content |-> DASHES \o <<NL>> \o SUMMARY \o <<":", SP, "a", NL>>
                       \o DASHES \o <<NL, "x">>,
       read |-> "ok"],
      \* malformed: an unclosed flow sequence
      [content |-> DASHES \o <<NL>> \o TAGS \o <<":", SP, "[", "a", NL>>
                       \o DASHES \o <<NL, "a", SP, "b">>,
       read |-> "ok"],
      \* no front matter at all
      [content |-> <<"a", SP, "b">>, read |-> "ok"],
      \* unterminated front matter
      [content |-> DASHES \o <<NL>> \o TITLE \o <<":", SP, "a", NL>>,
       read |-> "ok"],
      \* front matter that is a plain scalar, not a mapping
      [content |-> DASHES \o <<NL, "a", NL>> \o DASHES \o <<NL, "a">>,
       read |-> "ok"],
      [content |-> <<>>, read |-> "OSError"] }

\* the sequences of at most n elements of a set
RECURSIVE SeqsUpTo(_, _)
SeqsUpTo(S, n) ==
    IF n = 0 THEN {<<>>}
    ELSE SeqsUpTo(S, n - 1)
         \cup {Append(q, x) : q \in SeqsUpTo(S, n - 1), x \in S}

NoList == [status |-> "pending"]

Init ==
    /\ IdlePure
    /\ variant \in {"md", "mdx"}
    /\ query \in SearchQueries
    /\ top_n \in -1..MaxTop
    /\ dir_exists \in BOOLEAN
    /\ files \in IF ~dir_exists THEN {<<>>}
                 ELSE IF variant = "md" THEN SeqsUpTo(MdFileKinds, MaxFiles)
                 ELSE SeqsUpTo(MdxFileKinds, MaxFiles)
    /\ pos = 0
    /\ results = <<>>
    /\ files_processed = 0
    /\ files_skipped = 0
    /\ read_attempts = 0
    /\ pc = "main"
    /\ error = "none"
    /\ exit_code = -1
    /\ returned = NoList

\* only OSError is caught
ReadFails_OSErrorOnly(f) == f.read = "OSError"

\* read_text(encoding="utf-8") raises OSError or UnicodeDecodeError
ReadFails(f) == f.read \in {"OSError", "UnicodeDecodeError"}

\* a score of 0 is kept too
ScoreIncluded_ZeroKept(score) == score >= 0

\* if score > 0
ScoreIncluded(score) == score > 0

\* snippet[:300] + "..." if len(snippet) > 300 else snippet
Truncate(snippet) ==
    IF Len(snippet) > SNIPPET_MAX
    THEN SubSeq(snippet, 1, SNIPPET_MAX) \o ELLIPSIS
    ELSE snippet

\* results.sort(key=score, reverse=True): descending and stable, so an entry
\* goes behind every entry whose score is at least its own
RECURSIVE InsertByScore(_, _)
InsertByScore(sorted, r) ==
    IF sorted = <<>> THEN <<r>>
    ELSE IF Head(sorted).score >= r.score
         THEN <<Head(sorted)>> \o InsertByScore(Tail(sorted), r)
         ELSE <<r>> \o sorted

RECURSIVE SortFrom(_, _)
SortFrom(rs, acc) ==
    IF rs = <<>> THEN acc ELSE SortFrom(Tail(rs), InsertByScore(acc, Head(rs)))

\* an ascending stable sort, reversed: equal scores come out in reverse order
RECURSIVE InsertAscending(_, _)
InsertAscending(sorted, r) ==
    IF sorted = <<>> THEN <<r>>
    ELSE IF Head(sorted).score <= r.score
         THEN <<Head(sorted)>> \o InsertAscending(Tail(sorted), r)
         ELSE <<r>> \o sorted

RECURSIVE SortAscending(_, _)
SortAscending(rs, acc) ==
    IF rs = <<>> THEN acc
    ELSE SortAscending(Tail(rs), InsertAscending(acc, Head(rs)))

SortByScoreDesc_Reversed(rs) ==
    LET asc == SortAscending(rs, <<>>)
    IN  [i \in 1..Len(asc) |-> asc[Len(asc) + 1 - i]]

SortByScoreDesc(rs) == SortFrom(rs, <<>>)

\* rs[:n], for any integer n
PySliceTo(rs, n) ==
    IF n >= 0 THEN SubSeq(rs, 1, Min(n, Len(rs)))
    ELSE SubSeq(rs, 1, Max(0, Len(rs) + n))

Fail(exc) ==
    /\ error' = exc
    /\ exit_code' = 1
    /\ pc' = "exit"

\* search_references without its check of the directory
MdStart_NoDirCheck ==
    /\ variant = "md"
    /\ pc = "main"
    /\ IF top_n < 1 THEN Fail("ValueError")
       ELSE /\ pc' = "scan"
            /\ UNCHANGED <<error, exit_code>>
    /\ UNCHANGED <<variant, query, top_n, dir_exists, files, pos, results,
                   files_processed, files_skipped, read_attempts, returned>>
    /\ UNCHANGED pureVars

\* md: main() calls search_references, which checks its arguments
MdStart ==
    /\ variant = "md"
    /\ pc = "main"
    /\ IF top_n < 1 THEN Fail("ValueError")
       ELSE IF ~dir_exists THEN Fail("FileNotFoundError")
       ELSE /\ pc' = "scan"
            /\ UNCHANGED <<error, exit_code>>
    /\ UNCHANGED <<variant, query, top_n, dir_exists, files, pos, results,
                   files_processed, files_skipped, read_attempts, returned>>
    /\ UNCHANGED pureVars

\* md: one iteration of the loop over references_dir.glob("*.md")
MdScanFile ==
    /\ variant = "md"
    /\ pc = "scan"
    /\ pos < Len(files)
    /\ LET md_file == files[pos + 1]
           score == calculate_score_md(query, md_file.content, md_file.stem)
           snippet == extract_relevant_section(md_file.content, query, 5)
       IN  IF ReadFails(md_file)
           THEN /\ files_skipped' = files_skipped + 1
                /\ UNCHANGED <<files_processed, results>>
           ELSE /\ files_processed' = files_processed + 1
                /\ results' = IF ScoreIncluded(score)
                              THEN Append(results,
                                       [file |-> pos + 1, score |-> score,
                                        snippet |-> Truncate(snippet)])
                              ELSE results
                /\ UNCHANGED files_skipped
    /\ read_attempts' = read_attempts + 1
    /\ pos' = pos + 1
    /\ UNCHANGED <<variant, query, top_n, dir_exists, files, pc, error,
                   exit_code, returned>>
    /\ UNCHANGED pureVars

\* md: the loop is over; sort, truncate, return to main(), exit
MdFinish ==
    /\ variant = "md"
    /\ pc = "scan"
    /\ pos = Len(files)
    /\ results' = SortByScoreDesc(results)
    /\ returned' = Returned(PySliceTo(SortByScoreDesc(results), top_n))
    /\ exit_code' = 0
    /\ pc' = "exit"
    /\ UNCHANGED <<variant, query, top_n, dir_exists, files, pos,
                   files_processed, files_skipped, read_attempts, error>>
    /\ UNCHANGED pureVars

\* mdx: main() checks PATTERNS_DIR, then calls search_patterns
MdxStart ==
    /\ variant = "mdx"
    /\ pc = "main"
    /\ IF ~dir_exists THEN Fail("Patterns directory not found")
       ELSE /\ pc' = "scan"
            /\ UNCHANGED <<error, exit_code>>
    /\ UNCHANGED <<variant, query, top_n, dir_exists, files, pos, results,
                   files_processed, files_skipped, read_attempts, returned>>
    /\ UNCHANGED pureVars

\* mdx: one iteration of the loop over PATTERNS_DIR.rglob("*.mdx")
MdxScanFile ==
    /\ variant = "mdx"
    /\ pc = "scan"
    /\ pos < Len(files)
    /\ LET mdx_file == files[pos + 1]
           parsed == parse_frontmatter(mdx_file.content)
           score == calculate_score_mdx(query, parsed.frontmatter, parsed.body)
       IN  IF ReadFails(mdx_file) \/ ~Truthy(parsed.frontmatter)
           THEN /\ pos' = pos + 1
                /\ UNCHANGED <<results, pc, error, exit_code>>
           ELSE IF calculate_score_raises(parsed.frontmatter)
           THEN /\ Fail("AttributeError")
                /\ UNCHANGED <<results, pos>>
           ELSE /\ results' = IF score > 0
                              THEN Append(results,
                                       [file |-> pos + 1, score |-> score])
                              ELSE results
                /\ pos' = pos + 1
                /\ UNCHANGED <<pc, error, exit_code>>
    /\ read_attempts' = read_attempts + 1
    /\ UNCHANGED <<variant, query, top_n, dir_exists, files, files_processed,
                   files_skipped, returned>>
    /\ UNCHANGED pureVars

\* mdx: the loop is over; sort, truncate, return to main(), exit
MdxFinish ==
    /\ variant = "mdx"
    /\ pc = "scan"
    /\ pos = Len(files)
    /\ results' = SortByScoreDesc(results)
    /\ returned' = Returned(PySliceTo(SortByScoreDesc(results), top_n))
    /\ exit_code' = 0
    /\ pc' = "exit"
    /\ UNCHANGED <<variant, query, top_n, dir_exists, files, pos,
                   files_processed, files_skipped, read_attempts, error>>
    /\ UNCHANGED pureVars

Next ==
    \/ MdStart
    \/ MdScanFile
    \/ MdFinish
    \/ MdxStart
    \/ MdxScanFile
    \/ MdxFinish

Spec == Init /\ [][Next]_vars

----------------------------------------------------------------------------
(* Claims about a run.                                                     *)

Failed(i) == files[i].read # "ok"

ResultFiles(rs) == {rs[k].file : k \in 1..Len(rs)}

\* the md files that were read and match the query
MdMatching ==
    {i \in 1..Len(files) :
        /\ ~Failed(i)
        /\ calculate_score_md(query, files[i].content, files[i].stem) > 0}

Finished == pc = "exit" /\ error = "none"

\* C2: in the mdx variant a readable document whose metadata block is
\* malformed, missing or unterminated is scored with empty metadata, and is in
\* the result list (before truncation) when its body matches the query.
\* Stated for queries of at least one term and top_n >= 1.
C2_EmptyMetadataStillScored ==
    (variant = "mdx" /\ Finished /\ Split(Lower(query)) # <<>> /\ top_n >= 1)
        => \A i \in 1..Len(files) :
              (/\ ~Failed(i)
               /\ parse_frontmatter(files[i].content).frontmatter = EmptyDict
               /\ calculate_score_mdx(query, EmptyDict,
                      parse_frontmatter(files[i].content).body) > 0)
                  => i \in ResultFiles(results)

ConfigurationErrors ==
    {"ValueError", "FileNotFoundError", "Patterns directory not found"}

\* C3: in both variants a run with top_n <= 0 ends with a configuration error
\* and a failure exit status, and returns no result list.  Stated for
\* queries of at least one term.
C3_NonPositiveTopRejected ==
    (pc = "exit" /\ top_n <= 0 /\ Split(Lower(query)) # <<>>)
        => /\ error \in ConfigurationErrors
           /\ exit_code = 1
           /\ returned = NoList

\* C5: search_references (existing directory, top_n >= 1) returns exactly
\* min(top_n, number of read documents with score > 0) results, each with
\* score > 0.
C5_TopNTruncation ==
    (variant = "md" /\ Finished)
        => /\ returned.status = "returned"
           /\ Len(returned.value) = Min(top_n, Cardinality(MdMatching))
           /\ \A k \in 1..Len(returned.value) : returned.value[k].score > 0

C5_Witness ==
    /\ variant = "md"
    /\ Finished
    /\ files_skipped >= 1
    /\ Cardinality(MdMatching) > top_n
    /\ Len(returned.value) = top_n

\* C6: a file whose read fails is skipped without aborting the scan: it is
\* in no result, every file is still visited, and (md) files_processed +
\* files_skipped is the number of candidate files with files_skipped the
\* number of failed reads.
C6_FailedReadsSkipped ==
    /\ Finished /\ dir_exists
          => /\ \A i \in 1..Len(files) : Failed(i) => i \notin ResultFiles(results)
             /\ pos = Len(files)
             /\ read_attempts = Len(files)
             /\ variant = "md"
                   => /\ files_processed + files_skipped = Len(files)
                      /\ files_skipped
                             = Cardinality({i \in 1..Len(files) : Failed(i)})
                      /\ ResultFiles(results) = MdMatching
    /\ error = "AttributeError" => ~Failed(pos + 1)

C6_Witness ==
    /\ Finished
    /\ variant = "md"
    /\ Len(files) = 3
    /\ Failed(1) /\ Failed(2) /\ ~Failed(3)
    /\ files[1].read # files[2].read
    /\ files_skipped = 2
    /\ files_processed = 1
    /\ ResultFiles(returned.value) = {3}

\* C7: the returned list is sorted by descending score, equal scores stay in
\* the order the scan discovered their files, and the list returned is a
\* prefix of the sorted list.
C7_StableDescending ==
    (Finished /\ returned.status = "returned")
        => /\ \A i, j \in 1..Len(results) :
                 i < j => \/ results[i].score > results[j].score
                          \/ /\ results[i].score = results[j].score
                             /\ results[i].file < results[j].file
           /\ \E k \in 0..Len(results) : returned.value = SubSeq(results, 1, k)
           /\ \A k \in 1..(Len(returned.value) - 1) :
                 returned.value[k].score >= returned.value[k + 1].score

C7_Witness ==
    /\ Finished
    /\ Len(returned.value) = 2
    /\ Len(results) = 3
    /\ returned.value[1].score = returned.value[2].score
    /\ returned.value[1].file = 2
    /\ returned.value[2].file = 3
    /\ results[3].file = 1

\* C8 as stated: when the root directory does not exist the run reports the
\* missing directory (failure exit status) before iteration begins, reads no
\* file and returns no result list, whatever the other arguments are.
C8_MissingDirectoryAlwaysReported ==
    (pc = "exit" /\ ~dir_exists)
        => /\ error \in {"FileNotFoundError", "Patterns directory not found"}
           /\ exit_code = 1
           /\ read_attempts = 0
           /\ pos = 0
           /\ returned = NoList

\* C8 amended: when the root directory does not exist the run ends with a
\* failure exit status before iteration begins, reads no file and returns no
\* result list; the error reported is the missing directory, except that
\* search_references with top_n < 1 reports the invalid top_n, which it
\* checks first.
C8_MissingDirectoryFails ==
    (pc = "exit" /\ ~dir_exists)
        => /\ error = IF variant = "mdx" THEN "Patterns directory not found"
                      ELSE IF top_n < 1 THEN "ValueError"
                      ELSE "FileNotFoundError"
           /\ exit_code = 1
           /\ read_attempts = 0
           /\ pos = 0
           /\ returned = NoList

C8_Witness ==
    /\ pc = "exit"
    /\ ~dir_exists
    /\ variant = "md"
    /\ top_n >= 1
    /\ error = "FileNotFoundError"
    /\ exit_code = 1

----------------------------------------------------------------------------
(* Claims about the pure functions.                                        *)

IsScoreCall == fn \in {"calculate_score_md", "calculate_score_mdx"}

\* C1: for every document and a query with zero terms (empty or whitespace
\* only), calculate_score of both variants returns 0.
C1_EmptyQueryScoresZero ==
    (IsScoreCall /\ ret.status = "returned" /\ Split(Lower(args.query)) = <<>>)
        => ret.value = 0

\* C4 as stated: adding one more occurrence of an already matched query term
\* anywhere in the body never decreases the md score, and the score is
\* unchanged once the term already occurs at least 10 times.
C4_MonotonicAnywhere ==
    (fn = "calculate_score_md" /\ args.edit # "none")
        => /\ ret.value >= prev.value
           /\ Count(Lower(args.before), args.term) >= MD_OCCURRENCE_CAP
                  => ret.value = prev.value

\* C4 amended: adding one more occurrence of an already matched query term
\* as a new last line of the body never decreases the md score, and once the
\* term already occurs at least 10 times the addition leaves that term's own
\* frequency contribution (0.5 per occurrence, capped at 10) unchanged.
C4_MonotonicAppendedLine ==
    (fn = "calculate_score_md" /\ args.edit = "append_line")
        => /\ ret.value >= prev.value
           /\ Count(Lower(args.before), args.term) >= MD_OCCURRENCE_CAP
                  => OccurrenceScore(Lower(args.content), args.term)
                         = OccurrenceScore(Lower(args.before), args.term)

C4_Witness ==
    /\ fn = "calculate_score_md"
    /\ args.edit = "append_line"
    /\ Count(Lower(args.before), args.term) >= MD_OCCURRENCE_CAP
    /\ Len(Split(Lower(args.query))) >= 2
    /\ ret.value >= prev.value
    /\ prev.value > 0

\* The line the claim C9 names, from 0, or -1: the first line containing the
\* whole lowercased query, else the first line containing the earliest query
\* term (in query order) that occurs in any line.
ClaimedMatchLine(content, q) ==
    LET lines == SplitLines(content)
        ql == Lower(q)
        terms == Split(ql)
        Has(needle, i) == Contains(needle, Lower(lines[i]))
        FirstWith(needle) ==
            CHOOSE i \in 1..Len(lines) :
                Has(needle, i) /\ \A j \in 1..Len(lines) : Has(needle, j) => i <= j
        hit == {k \in 1..Len(terms) : \E i \in 1..Len(lines) : Has(terms[k], i)}
    IN  IF \E i \in 1..Len(lines) : Has(ql, i) THEN FirstWith(ql) - 1
        ELSE IF hit # {}
        THEN FirstWith(terms[CHOOSE k \in hit : \A k2 \in hit : k <= k2]) - 1
        ELSE -1

\* lines max(0, m - c) .. min(last, m + c), inclusive, joined by line breaks
ClaimedWindow(content, m, c) ==
    LET lines == SplitLines(content)
        lo == Max(0, m - c)
        hi == Min(Len(lines) - 1, m + c)
    IN  JoinLines([j \in 1..(hi - lo + 1) |-> lines[lo + j]])

\* C9 as stated: extract_relevant_section returns the empty string exactly
\* when no line contains the query or a query term, and otherwise the window
\* of context_lines lines around the claimed match line.
C9_SnippetExactlyWhen ==
    (fn = "extract_relevant_section" /\ ret.status = "returned")
        => LET m == ClaimedMatchLine(args.content, args.query)
           IN  /\ (ret.value = <<>>) <=> (m = -1)
               /\ m # -1 => ret.value = ClaimedWindow(args.content, m,
                                                      args.context_lines)

\* C9 amended: extract_relevant_section (context_lines >= 0) returns the
\* empty string whenever no line contains the query or a query term, and
\* otherwise the window of context_lines lines around the claimed match line
\* (a window that is itself empty when it is a single empty line).
C9_SnippetWindow ==
    (fn = "extract_relevant_section" /\ ret.status = "returned")
        => LET m == ClaimedMatchLine(args.content, args.query)
           IN  /\ m = -1 => ret.value = <<>>
               /\ m # -1 => ret.value = ClaimedWindow(args.content, m,
                                                      args.context_lines)

C9_Witness ==
    /\ fn = "extract_relevant_section"
    /\ ret.status = "returned"
    /\ args.query = <<"z", SP, "b", SP, "A">>
    /\ args.content = <<"a", NL, "B", NL, "x">>
    /\ args.context_lines = 0
    /\ ret.value = <<"B">>

BeginsWithMarkerLine(content) == SplitLines(content)[1] = DASHES

HasClosingMarkerLine(content) ==
    \E i \in 2..Len(SplitLines(content)) : SplitLines(content)[i] = DASHES

\* C10: parse_frontmatter of marker line + metadata + marker line + body gives
\* the metadata of the region between the markers and the original body; a
\* text that does not begin with a marker line, or has no closing marker
\* line, gives empty metadata and the full text as body.
C10_FrontmatterRoundTrip ==
    (fn = "parse_frontmatter" /\ ret.status = "returned")
        => /\ args.kind = "built"
                  => /\ ret.value.frontmatter = LoadOrEmpty(args.meta)
                     /\ ret.value.body = args.body
           /\ (~BeginsWithMarkerLine(args.content)
                   \/ ~HasClosingMarkerLine(args.content))
                  => /\ ret.value.frontmatter = EmptyDict
                     /\ ret.value.body = args.content

====
